---- MODULE Spec2Model ----
(***************************************************************************)
(* Model of the recruitment-intake application src/app.py: the            *)
(* registration collection (registrations.json), the uploads directory,   *)
(* the /register intake workflow and the admin review handlers.           *)
(*                                                                         *)
(* Strings are TLA+ strings; the text conversions the handlers apply       *)
(* (str.strip, str.lower, int(), datetime.strptime, secure_filename) are   *)
(* operators computed over the modelled inputs.  A file name is the        *)
(* sequence of its dot-separated parts; a stored file is that name plus    *)
(* the numeric suffix save_file appends on collision (0: none).            *)
(***************************************************************************)
EXTENDS Integers, Sequences, FiniteSets, TLC

VARIABLES
    regs,         \* registrations.json: the list of registration records
    uploads,      \* the uploads directory: the set of stored files
    admin_token,  \* the ADMIN_TOKEN of the environment ("" when not set)
    issued,       \* history: the ids register() has assigned, oldest first
    last,         \* the latest request and its response
    probe,        \* inputs a specification draws or records: the age inputs
                  \* of the age specification, the credentials of the latest
                  \* admin request of the guard specification, the call of
                  \* the mail specification
    updates,            \* updates.json: the announcements, newest first
    admin_credentials,  \* admin_credentials.json (<<>>: no such file)
    mail_templates,     \* mail_templates.json (<<>>: no such file)
    site_content,       \* site_content.json (<<>>: no such file)
    carried,      \* history: the admin requests that passed the guard
    inflight      \* the requests of the concurrent workers: what each has
                  \* loaded from registrations.json and not yet saved

\* the documents the admin settings pages write, their history, and the
\* requests in flight
settings ==
    <<updates, admin_credentials, mail_templates, site_content, carried,
      inflight>>

vars ==
    <<regs, uploads, admin_token, issued, last, probe, updates,
      admin_credentials, mail_templates, site_content, carried, inflight>>

(***************************************************************************)
(* Bounds of the model.                                                    *)
(***************************************************************************)
\* registrations ever created in one behaviour of the review specification
MaxIssued == 2
\* registrations ever created in one behaviour of the intake specification
MaxIntake == 1
\* files the uploads directory may hold before the intake specification
\* stops taking submissions
MaxUploads == 6
\* admin requests that pass the guard in one behaviour of the guard
\* specification
MaxCarried == 2
\* entries of the recipient list of one call of the mail dispatcher
MaxRecipients == 3
\* requests served at the same time in the race specification
MaxWorkers == 2

(***************************************************************************)
(* Program constants.                                                      *)
(***************************************************************************)
POSITIONS ==
    <<"Frontend Developer", "Backend Developer",
      "Full Stack Developer", "App Developer">>

ALLOWED_EXTENSIONS ==
    {"png", "jpg", "jpeg", "gif", "webp", "pdf", "docx", "zip"}

allowed_id_types == {"Aadhaar Card", "PAN Card", "DigiLocker"}

MinAge == 18
MaxAge == 27
MinPositions == 1
MaxPositions == 2
InternshipCap == 10
\* SMTP_BATCH_SIZE when the environment does not set it
DefaultBatchSize == 50

\* dict.get on a key the record does not carry / Python None, as a string
Absent == "<absent>"

(***************************************************************************)
(* Text conversions.                                                       *)
(***************************************************************************)
\* str.strip(): surrounding whitespace removed
Strip(s) ==
    CASE s = " " -> ""
      [] s = " Backend Developer " -> "Backend Developer"
      [] s = " Aadhaar Card " -> "Aadhaar Card"
      [] s = " gh/asha " -> "gh/asha"
      [] s = " Results are out " -> "Results are out"
      [] s = " Asha@Example.com " -> "Asha@Example.com"
      [] OTHER -> s

\* str.lower() on a file extension or a mail address
Lower(s) ==
    CASE s = "PDF" -> "pdf"
      [] s = "PNG" -> "png"
      [] s = "EXE" -> "exe"
      [] s = "Asha@Example.com" -> "asha@example.com"
      [] OTHER -> s

Digits == {"0", "1", "2", "3", "4", "5", "6", "7", "8", "9"}

DigitValue(c) ==
    CASE c = "0" -> 0 [] c = "1" -> 1 [] c = "2" -> 2 [] c = "3" -> 3
      [] c = "4" -> 4 [] c = "5" -> 5 [] c = "6" -> 6 [] c = "7" -> 7
      [] c = "8" -> 8 [] c = "9" -> 9

RECURSIVE DecimalValue(_)
DecimalValue(cs) ==
    IF cs = <<>> THEN 0
    ELSE 10 * DecimalValue(SubSeq(cs, 1, Len(cs) - 1)) + DigitValue(cs[Len(cs)])

IsDecimal(cs) == cs # <<>> /\ \A i \in 1..Len(cs) : cs[i] \in Digits

\* int(text) on a sequence of characters: ok is FALSE where int() raises
ParseInt(cs) ==
    IF IsDecimal(cs)
    THEN [ok |-> TRUE, value |-> DecimalValue(cs)]
    ELSE IF cs # <<>> /\ Head(cs) = "-" /\ IsDecimal(Tail(cs))
    THEN [ok |-> TRUE, value |-> 0 - DecimalValue(Tail(cs))]
    ELSE [ok |-> FALSE, value |-> 0]

(***************************************************************************)
(* Dates: <<year, month, day>>.                                            *)
(***************************************************************************)
IsLeap(y) == (y % 4 = 0 /\ y % 100 # 0) \/ y % 400 = 0

DaysIn(y, m) ==
    CASE m \in {1, 3, 5, 7, 8, 10, 12} -> 31
      [] m \in {4, 6, 9, 11} -> 30
      [] m = 2 -> IF IsLeap(y) THEN 29 ELSE 28
      [] OTHER -> 0

\* datetime.strptime(dob_str, '%Y-%m-%d') succeeds exactly on calendar dates
ValidDate(d) ==
    /\ Len(d) = 3
    /\ d[1] >= 1
    /\ d[2] \in 1..12
    /\ d[3] \in 1..DaysIn(d[1], d[2])

\* Python's tuple comparison a < b: decided at the first differing element
RECURSIVE TupleLess(_, _)
TupleLess(a, b) ==
    IF a = <<>> THEN b # <<>>
    ELSE IF b = <<>> THEN FALSE
    ELSE IF Head(a) # Head(b) THEN Head(a) < Head(b)
    ELSE TupleLess(Tail(a), Tail(b))

BoolToInt(b) == IF b THEN 1 ELSE 0

(***************************************************************************)
(* Age resolution (register, lines 217-234).                               *)
(***************************************************************************)
\* a bug that compares with <= : the birthday itself does not count yet
AgeFromDobMutant(dob, today) ==
    today[1] - dob[1]
      - BoolToInt(~TupleLess(<<dob[2], dob[3]>>, <<today[2], today[3]>>))

\* today.year - dob.year - ((today.month, today.day) < (dob.month, dob.day))
AgeFromDob(dob, today) ==
    today[1] - dob[1]
      - BoolToInt(TupleLess(<<today[2], today[3]>>, <<dob[2], dob[3]>>))

\* the try block: age stays None (ok = FALSE) when nothing is given or
\* int()/strptime raises
ResolveAge(ageText, dob, today) ==
    IF ageText # <<>> THEN ParseInt(ageText)
    ELSE IF dob # <<>> THEN
        IF ValidDate(dob)
        THEN [ok |-> TRUE, value |-> AgeFromDob(dob, today)]
        ELSE [ok |-> FALSE, value |-> 0]
    ELSE [ok |-> FALSE, value |-> 0]

\* a bug that turns the lower limit away
AgeEligibleMutant(age) == ~(age <= MinAge \/ age > MaxAge)

\* the negation of `age < 18 or age > 27`
AgeEligible(age) == ~(age < MinAge \/ age > MaxAge)

\* the negation of `len(positions) < 1 or len(positions) > 2`
PositionCountOk(positions) ==
    ~(Len(positions) < MinPositions \/ Len(positions) > MaxPositions)

(***************************************************************************)
(* The file store (allowed_file, save_file).                               *)
(***************************************************************************)
\* an uploaded file object; present = FALSE is request.files.get(...) = None
NoFile == [present |-> FALSE, filename |-> <<>>]
Upload(parts) == [present |-> TRUE, filename |-> parts]

\* save_file returning None
NoName == [parts |-> <<>>, suffix |-> 0]

\* a bug that takes any name with an extension
AllowedFileMutant(parts) == Len(parts) >= 2

\* '.' in filename and filename.rsplit('.', 1)[1].lower() in ALLOWED_EXTENSIONS
allowed_file(parts) ==
    Len(parts) >= 2 /\ Lower(parts[Len(parts)]) \in ALLOWED_EXTENSIONS

\* werkzeug's secure_filename: whitespace becomes an underscore
secure_filename(parts) ==
    [i \in DOMAIN parts |-> IF parts[i] = "my cert" THEN "my_cert" ELSE parts[i]]

\* the timestamp suffix of a colliding name: a value no stored file of that
\* name carries (the clock only moves forward between two saves)
FreshSuffix(parts, store) == Cardinality({s \in store : s.parts = parts})

\* save_file(file) against the directory `store`: the stored name (NoName
\* for None) and the directory afterwards
save_file(file, store) ==
    IF ~file.present \/ file.filename = <<>> THEN [name |-> NoName, store |-> store]
    ELSE IF ~allowed_file(file.filename) THEN [name |-> NoName, store |-> store]
    ELSE
        LET filename == secure_filename(file.filename)
            plain == [parts |-> filename, suffix |-> 0]
            stored == IF plain \in store
                      THEN [parts |-> filename,
                            suffix |-> FreshSuffix(filename, store)]
                      ELSE plain
        IN [name |-> stored, store |-> store \cup {stored}]

\* `for f in files: stored = save_file(f); if stored: names.append(stored)`
RECURSIVE SaveAll(_, _)
SaveAll(files, store) ==
    IF files = <<>> THEN [names |-> <<>>, store |-> store]
    ELSE
        LET one == save_file(Head(files), store)
            rest == SaveAll(Tail(files), one.store)
        IN [names |-> (IF one.name = NoName THEN <<>> ELSE <<one.name>>)
                        \o rest.names,
            store |-> rest.store]

\* files[:n]
Prefix(s, n) == SubSeq(s, 1, IF Len(s) < n THEN Len(s) ELSE n)

Max(a, b) == IF a > b THEN a ELSE b

\* the dynamic project rows loop (lines 307-314), from row i on
RECURSIVE ProjectRows(_, _, _, _)
ProjectRows(link_list, file_list, i, store) ==
    IF i > Max(Len(link_list), Len(file_list))
    THEN [links |-> <<>>, files |-> <<>>, store |-> store]
    ELSE
        LET link == IF i <= Len(link_list) THEN link_list[i] ELSE ""
            file == IF i <= Len(file_list) THEN file_list[i] ELSE NoFile
            one == save_file(file, store)
            rest == ProjectRows(link_list, file_list, i + 1, one.store)
        IN [links |-> (IF link # "" THEN <<link>> ELSE <<>>) \o rest.links,
            files |-> (IF one.name = NoName THEN <<>> ELSE <<one.name>>)
                        \o rest.files,
            store |-> rest.store]

(***************************************************************************)
(* Flash messages of /register.                                            *)
(***************************************************************************)
MsgRequired == "Please fill all required fields."
MsgDob == "Please provide a valid Date of Birth."
\* f"Age {age} is not eligible. Applicants must be between 18 and 27 years old."
MsgAge(age) ==
    "Age " \o ToString(age)
      \o " is not eligible. Applicants must be between 18 and 27 years old."
MsgPositions == "Please select at least 1 and at most 2 positions."
MsgHackathon == "Please upload at least one Hackathon certificate."
MsgInternship == "Please upload at least one Internship certificate (required for graduates)."
MsgInsta == "Please upload Instagram follow proof."
MsgLinkedIn == "Please upload LinkedIn follow proof."
MsgPayment == "Please upload payment proof."
MsgIdType == "Please choose a valid Proof of Identity type."
MsgIdFile == "Please upload a photo of the selected Proof of Identity."
MsgSocials == "GitHub, LinkedIn, and Instagram profile links are required."
MsgSuccess == "Registration submitted successfully!"
\* no flash yet: the handler is still running
Running == ""

(***************************************************************************)
(* The POST branch of register() as its successive steps.  Each step takes *)
(* the handler's locals c (c.msg = Running while no check has failed,      *)
(* c.store the uploads directory so far) and returns them after the step;  *)
(* a step after a failed check is not executed (the early return).         *)
(***************************************************************************)
StartRequest(form, today, store) ==
    [form |-> form, today |-> today, msg |-> Running, store |-> store,
     age |-> 0,
     hackathon_certificates |-> <<>>, internship_certificates |-> <<>>,
     college_id |-> NoName, project_links |-> <<>>, project_files |-> <<>>,
     instagram_proof |-> NoName, linkedin_proof |-> NoName,
     payment_proof |-> NoName, profile_photo |-> NoName,
     id_proof_type |-> "", id_proof_file |-> NoName,
     social_media |-> [github |-> "", linkedin |-> "", instagram |-> "",
                       portfolio |-> ""]]

Fail(c, msg) == [c EXCEPT !.msg = msg]

\* lines 213-215
CheckScalars(c) ==
    IF c.msg # Running THEN c
    ELSE IF c.form.fullname = "" \/ c.form.email = "" \/ c.form.contact = ""
            \/ c.form.status = ""
    THEN Fail(c, MsgRequired)
    ELSE c

\* lines 217-238
CheckAgeResolved(c) ==
    IF c.msg # Running THEN c
    ELSE
        LET a == ResolveAge(c.form.age, c.form.dob, c.today)
        IN IF ~a.ok THEN Fail(c, MsgDob) ELSE [c EXCEPT !.age = a.value]

\* lines 240-249
CheckAgeRange(c) ==
    IF c.msg # Running THEN c
    ELSE IF ~AgeEligible(c.age) THEN Fail(c, MsgAge(c.age))
    ELSE c

\* lines 251-254
CheckPositions(c) ==
    IF c.msg # Running THEN c
    ELSE IF ~PositionCountOk(c.form.positions) THEN Fail(c, MsgPositions)
    ELSE c

\* lines 256-265
SaveHackathon(c) ==
    IF c.msg # Running THEN c
    ELSE
        LET r == SaveAll(c.form.hackathon_cert, c.store)
            d == [c EXCEPT !.store = r.store, !.hackathon_certificates = r.names]
        IN IF r.names = <<>> THEN Fail(d, MsgHackathon) ELSE d

\* lines 267-283
SaveInternship(c) ==
    IF c.msg # Running THEN c
    ELSE
        LET r == SaveAll(Prefix(c.form.internship_cert, InternshipCap), c.store)
            d == [c EXCEPT !.store = r.store, !.internship_certificates = r.names]
        IN IF c.form.status = "Graduate" /\ r.names = <<>>
           THEN Fail(d, MsgInternship)
           ELSE d

\* lines 285-288
SaveCollegeId(c) ==
    IF c.msg # Running THEN c
    ELSE IF c.form.status = "Student" THEN
        LET r == save_file(c.form.college_id, c.store)
        IN [c EXCEPT !.store = r.store, !.college_id = r.name]
    ELSE c

\* lines 290-314
SaveProjects(c) ==
    IF c.msg # Running THEN c
    ELSE
        LET link_list == IF c.form.status = "Student"
                         THEN c.form.student_project_link
                         ELSE c.form.graduate_project_link
            file_list == IF c.form.status = "Student"
                         THEN c.form.student_project_file
                         ELSE c.form.graduate_project_file
            r == ProjectRows(link_list, file_list, 1, c.store)
        IN [c EXCEPT !.store = r.store, !.project_links = r.links,
                     !.project_files = r.files]

\* lines 316-320
SaveInsta(c) ==
    IF c.msg # Running THEN c
    ELSE
        LET r == save_file(c.form.insta_follow_proof, c.store)
            d == [c EXCEPT !.store = r.store, !.instagram_proof = r.name]
        IN IF r.name = NoName THEN Fail(d, MsgInsta) ELSE d

\* lines 322-328
SaveLinkedIn(c) ==
    IF c.msg # Running THEN c
    ELSE
        LET r == save_file(c.form.linkedin_follow_proof, c.store)
            d == [c EXCEPT !.store = r.store, !.linkedin_proof = r.name]
        IN IF r.name = NoName THEN Fail(d, MsgLinkedIn) ELSE d

\* lines 330-334
SavePayment(c) ==
    IF c.msg # Running THEN c
    ELSE
        LET r == save_file(c.form.payment_proof, c.store)
            d == [c EXCEPT !.store = r.store, !.payment_proof = r.name]
        IN IF r.name = NoName THEN Fail(d, MsgPayment) ELSE d

\* lines 336-337
SaveProfilePhoto(c) ==
    IF c.msg # Running THEN c
    ELSE
        LET r == save_file(c.form.profile_photo, c.store)
        IN [c EXCEPT !.store = r.store, !.profile_photo = r.name]

\* lines 339-344
CheckIdType(c) ==
    IF c.msg # Running THEN c
    ELSE
        LET t == Strip(c.form.id_proof_type)
            d == [c EXCEPT !.id_proof_type = t]
        IN IF t \notin allowed_id_types THEN Fail(d, MsgIdType) ELSE d

\* lines 345-351
SaveIdFile(c) ==
    IF c.msg # Running THEN c
    ELSE
        LET r == save_file(c.form.id_proof_file, c.store)
            d == [c EXCEPT !.store = r.store, !.id_proof_file = r.name]
        IN IF r.name = NoName THEN Fail(d, MsgIdFile) ELSE d

\* lines 353-369
CheckSocials(c) ==
    IF c.msg # Running THEN c
    ELSE
        LET sm == [github |-> Strip(c.form.github),
                   linkedin |-> Strip(c.form.linkedin),
                   instagram |-> Strip(c.form.instagram),
                   portfolio |-> Strip(c.form.portfolio)]
            d == [c EXCEPT !.social_media = sm]
        IN IF sm.github = "" \/ sm.linkedin = "" \/ sm.instagram = ""
           THEN Fail(d, MsgSocials)
           ELSE d

\* a bug that looks at the identity-proof type before the payment proof
IntakeMutant(form, today, store) ==
    CheckSocials(SaveIdFile(SaveProfilePhoto(SavePayment(CheckIdType(
    SaveLinkedIn(SaveInsta(SaveProjects(SaveCollegeId(SaveInternship(
    SaveHackathon(CheckPositions(CheckAgeRange(CheckAgeResolved(
    CheckScalars(StartRequest(form, today, store))))))))))))))))

\* everything register() does before it touches registrations.json
Intake(form, today, store) ==
    CheckSocials(SaveIdFile(CheckIdType(SaveProfilePhoto(SavePayment(
    SaveLinkedIn(SaveInsta(SaveProjects(SaveCollegeId(SaveInternship(
    SaveHackathon(CheckPositions(CheckAgeRange(CheckAgeResolved(
    CheckScalars(StartRequest(form, today, store))))))))))))))))

(***************************************************************************)
(* registrations.json                                                      *)
(***************************************************************************)
\* _load_list: the stored list, review_status backfilled where missing
\* (the model never stores an unreadable document)
_load_list(doc) ==
    [i \in DOMAIN doc |->
        IF doc[i].review_status = Absent
        THEN [doc[i] EXCEPT !.review_status = "pending"]
        ELSE doc[i]]

\* _save_list: the document is replaced by the list
_save_list(data_list) == data_list

Ids(rs) == {rs[i].id : i \in DOMAIN rs}

SetMax(S) == CHOOSE m \in S : \A x \in S : x <= m

\* a bug that leaves out the `1 +`
NextIdMutant(rs) == IF rs = <<>> THEN 0 ELSE SetMax(Ids(rs))

\* 1 + max([r.get('id', 0) for r in regs] or [0])
NextId(rs) == 1 + (IF rs = <<>> THEN 0 ELSE SetMax(Ids(rs)))

\* the registration dict of lines 374-400
NewRegistration(c, id) ==
    [id |-> id,
     timestamp |-> c.today,
     fullname |-> c.form.fullname,
     email |-> c.form.email,
     contact |-> c.form.contact,
     age |-> c.age,
     status |-> c.form.status,
     review_status |-> "pending",
     selected_position |-> Absent,
     positions |-> c.form.positions,
     project_links |-> c.project_links,
     project_files |-> c.project_files,
     instagram_proof |-> c.instagram_proof,
     linkedin_proof |-> c.linkedin_proof,
     payment_proof |-> c.payment_proof,
     profile_photo |-> c.profile_photo,
     identity_proof |-> [type |-> c.id_proof_type, file |-> c.id_proof_file],
     college_id |-> c.college_id,
     hackathon_certificates |-> c.hackathon_certificates,
     internship_certificates |-> c.internship_certificates,
     social_media |-> c.social_media]

\* a bug that adds the new record at the end of the list
StoreAtEndMutant(c, doc) ==
    IF c.msg # Running THEN doc
    ELSE
        LET rs == _load_list(doc)
        IN _save_list(rs \o <<NewRegistration(c, NextId(rs))>>)

\* a bug that writes the record before the last check has been looked at
StoreRegistrationMutant(c, doc) ==
    IF c.msg \notin {Running, MsgSocials} THEN doc
    ELSE
        LET rs == _load_list(doc)
        IN _save_list(<<NewRegistration(c, NextId(rs))>> \o rs)

\* lines 371-402: load, assign the id, insert at the front, save; not reached
\* after a failed check
StoreRegistration(c, doc) ==
    IF c.msg # Running THEN doc
    ELSE
        LET rs == _load_list(doc)
        IN _save_list(<<NewRegistration(c, NextId(rs))>> \o rs)

(***************************************************************************)
(* The admin guard and the review helpers.                                 *)
(***************************************************************************)
\* a or b, on strings: the first one that is not empty
Or(a, b) == IF a # "" THEN a ELSE b

\* a bug that compares the token even when no ADMIN_TOKEN is configured
RequireAdminMutant(auth, expected) ==
    \/ auth.session
    \/ Or(auth.args, Or(auth.form, auth.header)) = expected

\* _require_admin: TRUE where the handler goes on, FALSE where it aborts
\* with 403.  `expected` is the ADMIN_TOKEN of the environment ("": not set)
_require_admin(auth, expected) ==
    \/ auth.session
    \/ /\ expected # ""
       /\ Or(auth.args, Or(auth.form, auth.header)) = expected

Msg403 == "403 Forbidden"
MsgChoosePosition == "Please choose a position to select for."
MsgInvalidPosition == "Invalid position for this candidate."
MsgSelected == "Marked as Selected."
MsgRejected == "Marked as Rejected."
MsgPaused == "Moved to Paused."
MsgDeleted == "Registration deleted successfully!"
MsgAllRejectedDeleted == "All rejected registrations deleted."
MsgNoneChosen == "No candidates selected to delete."
MsgRejectedDeleted == "Deleted rejected registration(s)."

Contains(seq, x) == \E i \in DOMAIN seq : seq[i] = x

\* the first record the loop `for r in regs: if r.get('id') == reg_id` meets
\* (0: none)
FirstWithId(rs, reg_id) ==
    IF reg_id \in Ids(rs)
    THEN CHOOSE i \in DOMAIN rs :
            rs[i].id = reg_id /\ \A j \in 1..(i - 1) : rs[j].id # reg_id
    ELSE 0

\* a bug that forgets the position a registration was selected for when its
\* review_status changes
StatusClearsPositionMutant(doc, reg_id, new_status) ==
    LET rs == _load_list(doc)
        i == FirstWithId(rs, reg_id)
    IN IF i = 0 THEN [updated |-> FALSE, doc |-> doc]
       ELSE [updated |-> TRUE,
             doc |-> _save_list([rs EXCEPT ![i].review_status = new_status,
                                           ![i].selected_position = Absent])]

\* a bug that lets only pending registrations be rejected or paused
StatusPendingOnlyMutant(doc, reg_id, new_status) ==
    LET rs == _load_list(doc)
        i == FirstWithId(rs, reg_id)
    IN IF i = 0 \/ rs[i].review_status # "pending"
       THEN [updated |-> FALSE, doc |-> doc]
       ELSE [updated |-> TRUE,
             doc |-> _save_list([rs EXCEPT ![i].review_status = new_status])]

\* _set_review_status: the return value and the document afterwards
_set_review_status(doc, reg_id, new_status) ==
    LET rs == _load_list(doc)
        i == FirstWithId(rs, reg_id)
    IN IF i = 0 THEN [updated |-> FALSE, doc |-> doc]
       ELSE [updated |-> TRUE,
             doc |-> _save_list([rs EXCEPT ![i].review_status = new_status])]

\* a bug that drops the membership test
SelectUncheckedMutant(doc, reg_id, position) ==
    LET rs == _load_list(doc)
        i == FirstWithId(rs, reg_id)
    IN IF i = 0 THEN [updated |-> FALSE, doc |-> doc]
       ELSE [updated |-> TRUE,
             doc |-> _save_list([rs EXCEPT ![i].review_status = "selected",
                                           ![i].selected_position = position])]

\* a bug that marks the record before the test and saves on the way out
SelectSavesOnFailureMutant(doc, reg_id, position) ==
    LET rs == _load_list(doc)
        i == FirstWithId(rs, reg_id)
    IN IF i = 0 THEN [updated |-> FALSE, doc |-> doc]
       ELSE IF ~Contains(rs[i].positions, position)
       THEN [updated |-> FALSE,
             doc |-> _save_list([rs EXCEPT ![i].review_status = "selected"])]
       ELSE [updated |-> TRUE,
             doc |-> _save_list([rs EXCEPT ![i].review_status = "selected",
                                           ![i].selected_position = position])]

\* a bug that lets only pending registrations be selected
SelectPendingOnlyMutant(doc, reg_id, position) ==
    LET rs == _load_list(doc)
        i == FirstWithId(rs, reg_id)
    IN IF i = 0 THEN [updated |-> FALSE, doc |-> doc]
       ELSE IF ~Contains(rs[i].positions, position)
               \/ rs[i].review_status # "pending"
       THEN [updated |-> FALSE, doc |-> doc]
       ELSE [updated |-> TRUE,
             doc |-> _save_list([rs EXCEPT ![i].review_status = "selected",
                                           ![i].selected_position = position])]

\* _set_selected_with_position: the return value and the document afterwards
_set_selected_with_position(doc, reg_id, position) ==
    LET rs == _load_list(doc)
        i == FirstWithId(rs, reg_id)
    IN IF i = 0 THEN [updated |-> FALSE, doc |-> doc]
       ELSE IF ~Contains(rs[i].positions, position)
       THEN [updated |-> FALSE, doc |-> doc]
       ELSE [updated |-> TRUE,
             doc |-> _save_list([rs EXCEPT ![i].review_status = "selected",
                                           ![i].selected_position = position])]

\* {int(x) for x in raw_ids if x}; any int() that raises empties the set
ParseIds(raw_ids) ==
    LET given == {i \in DOMAIN raw_ids : raw_ids[i] # <<>>}
    IN IF \A i \in given : ParseInt(raw_ids[i]).ok
       THEN {ParseInt(raw_ids[i]).value : i \in given}
       ELSE {}

(***************************************************************************)
(* The handlers.  `last` is the latest request and its response: the       *)
(* handler, its flash message (or the 403), the id and position it was     *)
(* about and the review_status that registration had when the request      *)
(* came in ("" where there is none).                                       *)
(***************************************************************************)
Response(op, msg, id, pos, was) ==
    [op |-> op, msg |-> msg, id |-> id, pos |-> pos, was |-> was]

\* the review_status of the registration a request names
StatusOf(doc, reg_id) ==
    IF FirstWithId(doc, reg_id) = 0 THEN ""
    ELSE _load_list(doc)[FirstWithId(doc, reg_id)].review_status

\* abort(403): the same response whatever the handler
Forbidden ==
    /\ last' = Response("denied", Msg403, 0, "", "")
    /\ UNCHANGED <<regs, uploads, admin_token, issued>>

\* POST /register
Register(form, today) ==
    /\ LET c == Intake(form, today, uploads)
           doc == StoreRegistration(c, regs)
       IN /\ regs' = doc
          /\ uploads' = c.store
          /\ issued' = IF c.msg = Running THEN Append(issued, doc[1].id)
                       ELSE issued
          /\ last' = IF c.msg = Running
                     THEN Response("register", MsgSuccess, doc[1].id, "", "")
                     ELSE Response("register", c.msg, 0, "", "")
          /\ UNCHANGED admin_token

\* POST /admin/registrations/select/<reg_id>
SelectRegistration(auth, reg_id, selected_position) ==
    IF ~_require_admin(auth, admin_token) THEN Forbidden
    ELSE
        LET sel_pos == Strip(selected_position)
            r == _set_selected_with_position(regs, reg_id, sel_pos)
        IN IF sel_pos = ""
           THEN /\ last' = Response("select", MsgChoosePosition, reg_id, sel_pos,
                                    StatusOf(regs, reg_id))
                /\ UNCHANGED <<regs, uploads, admin_token, issued>>
           ELSE /\ regs' = r.doc
                /\ last' = Response("select",
                                    IF r.updated THEN MsgSelected
                                    ELSE MsgInvalidPosition,
                                    reg_id, sel_pos, StatusOf(regs, reg_id))
                /\ UNCHANGED <<uploads, admin_token, issued>>

\* POST /admin/registrations/reject/<reg_id>
RejectRegistration(auth, reg_id) ==
    IF ~_require_admin(auth, admin_token) THEN Forbidden
    ELSE /\ regs' = _set_review_status(regs, reg_id, "rejected").doc
         /\ last' = Response("reject", MsgRejected, reg_id, "",
                            StatusOf(regs, reg_id))
         /\ UNCHANGED <<uploads, admin_token, issued>>

\* POST /admin/registrations/pause/<reg_id>
PauseRegistration(auth, reg_id) ==
    IF ~_require_admin(auth, admin_token) THEN Forbidden
    ELSE /\ regs' = _set_review_status(regs, reg_id, "paused").doc
         /\ last' = Response("pause", MsgPaused, reg_id, "",
                            StatusOf(regs, reg_id))
         /\ UNCHANGED <<uploads, admin_token, issued>>

\* a bug that deletes a registration only while nobody has reviewed it
DeleteUnreviewedMutant(auth, reg_id) ==
    IF ~_require_admin(auth, admin_token) THEN Forbidden
    ELSE
        LET Keep(r) == r.id # reg_id \/ r.review_status # "pending"
        IN /\ regs' = _save_list(SelectSeq(_load_list(regs), Keep))
           /\ last' = Response("delete", MsgDeleted, reg_id, "", "")
           /\ UNCHANGED <<uploads, admin_token, issued>>

\* POST /admin/registrations/delete/<reg_id>
DeleteRegistration(auth, reg_id) ==
    IF ~_require_admin(auth, admin_token) THEN Forbidden
    ELSE
        LET Keep(r) == r.id # reg_id
        IN /\ regs' = _save_list(SelectSeq(_load_list(regs), Keep))
           /\ last' = Response("delete", MsgDeleted, reg_id, "", "")
           /\ UNCHANGED <<uploads, admin_token, issued>>

\* POST /admin/rejected/delete_all
DeleteAllRejected(auth) ==
    IF ~_require_admin(auth, admin_token) THEN Forbidden
    ELSE
        LET Keep(r) == r.review_status # "rejected"
        IN /\ regs' = _save_list(SelectSeq(_load_list(regs), Keep))
           /\ last' = Response("delete_all_rejected", MsgAllRejectedDeleted, 0, "",
                              "")
           /\ UNCHANGED <<uploads, admin_token, issued>>

\* a bug that deletes the chosen registrations whatever their review_status
DeleteSelectedAnyMutant(auth, raw_ids) ==
    IF ~_require_admin(auth, admin_token)
    THEN Forbidden
    ELSE
        LET ids == ParseIds(raw_ids)
            Keep(r) == r.id \notin ids
        IN /\ regs' = _save_list(SelectSeq(_load_list(regs), Keep))
           /\ last' = Response("delete_selected_rejected", MsgRejectedDeleted,
                               0, "", "") @@ [ids |-> ids]
           /\ UNCHANGED <<uploads, admin_token, issued>>

\* POST /admin/rejected/delete_selected; the response also records the id
\* set the handler parsed
DeleteSelectedRejected(auth, raw_ids) ==
    IF ~_require_admin(auth, admin_token)
    THEN Forbidden
    ELSE IF ParseIds(raw_ids) = {}
    THEN /\ last' = Response("delete_selected_rejected", MsgNoneChosen, 0, "",
                           "") @@ [ids |-> {}]
         /\ UNCHANGED <<regs, uploads, admin_token, issued>>
    ELSE
        LET ids == ParseIds(raw_ids)
            Keep(r) == ~(r.review_status = "rejected" /\ r.id \in ids)
        IN /\ regs' = _save_list(SelectSeq(_load_list(regs), Keep))
           /\ last' = Response("delete_selected_rejected", MsgRejectedDeleted,
                               0, "", "") @@ [ids |-> ids]
           /\ UNCHANGED <<uploads, admin_token, issued>>

(***************************************************************************)
(* The admin settings: announcements, credentials, mail templates and site *)
(* content.  A JSON file that holds one object is the sequence of what it  *)
(* holds: <<>> while the file does not exist, <<object>> once written.     *)
(***************************************************************************)
MsgUpdateEmpty == "Update message cannot be empty."
MsgUpdateAdded == "Update added."
MsgUpdateDeleted == "Update deleted."
MsgUpdateIndex == "Invalid update index."
MsgCredentialsEmpty == "Username and Password cannot be empty."
MsgCredentialsUpdated == "Admin credentials updated."
MsgPositionRequired == "Position is required."
MsgTemplateSaved(position) == "Template saved for " \o position \o "."
MsgSiteContent == "Site content updated."

\* _load_updates_list on a file of strings: the list, or the default
\* announcement when there is none
_load_updates_list(doc) ==
    IF doc = <<>> THEN <<"Registration will open soon.">> ELSE doc

_save_updates_list(items) == items

\* items.pop(index), index counted from 0
Pop(items, index) ==
    SubSeq(items, 1, index) \o SubSeq(items, index + 2, Len(items))

\* POST /admin/updates/add
admin_add_update(auth, message) ==
    IF ~_require_admin(auth, admin_token) THEN Forbidden /\ UNCHANGED updates
    ELSE IF Strip(message) = ""
    THEN /\ last' = Response("add_update", MsgUpdateEmpty, 0, "", "")
         /\ UNCHANGED <<regs, uploads, admin_token, issued, updates>>
    ELSE /\ updates' = _save_updates_list(
                          <<Strip(message)>> \o _load_updates_list(updates))
         /\ last' = Response("add_update", MsgUpdateAdded, 0, "", "")
         /\ UNCHANGED <<regs, uploads, admin_token, issued>>

\* POST /admin/updates/delete/<index>
admin_delete_update(auth, index) ==
    IF ~_require_admin(auth, admin_token) THEN Forbidden /\ UNCHANGED updates
    ELSE IF 0 <= index /\ index < Len(_load_updates_list(updates))
    THEN /\ updates' = _save_updates_list(
                          Pop(_load_updates_list(updates), index))
         /\ last' = Response("delete_update", MsgUpdateDeleted, index, "", "")
         /\ UNCHANGED <<regs, uploads, admin_token, issued>>
    ELSE /\ last' = Response("delete_update", MsgUpdateIndex, index, "", "")
         /\ UNCHANGED <<regs, uploads, admin_token, issued, updates>>

_default_admin_credentials ==
    [username |-> "Umeshkiran", password |-> "Umesh@kiran"]

\* _save_admin_credentials: an empty value is replaced by the default
_save_admin_credentials(creds) ==
    <<[username |-> Or(creds.username, _default_admin_credentials.username),
       password |-> Or(creds.password, _default_admin_credentials.password)]>>

\* POST /admin/settings/credentials
admin_update_credentials(auth, new_username, new_password) ==
    IF ~_require_admin(auth, admin_token)
    THEN Forbidden /\ UNCHANGED admin_credentials
    ELSE IF Strip(new_username) = "" \/ Strip(new_password) = ""
    THEN /\ last' = Response("credentials", MsgCredentialsEmpty, 0, "", "")
         /\ UNCHANGED <<regs, uploads, admin_token, issued, admin_credentials>>
    ELSE /\ admin_credentials' =
                _save_admin_credentials([username |-> Strip(new_username),
                                         password |-> Strip(new_password)])
         /\ last' = Response("credentials", MsgCredentialsUpdated, 0, "", "")
         /\ UNCHANGED <<regs, uploads, admin_token, issued>>

_default_mail_templates ==
    [p \in {POSITIONS[i] : i \in DOMAIN POSITIONS} |->
        [subject |-> "Update for " \o p,
         body |-> "Hello,\n\nThis is an update regarding your selection for "
                    \o p
                    \o ".\nWe will share next steps shortly.\n\nRegards,\nTeam"]]

\* _load_mail_templates: the templates, every canonical position filled in
\* (the file the application writes always carries subject and body)
_load_mail_templates(doc) ==
    IF doc = <<>> THEN _default_mail_templates
    ELSE [p \in DOMAIN doc[1] \cup DOMAIN _default_mail_templates |->
            IF p \in DOMAIN doc[1] THEN doc[1][p]
            ELSE _default_mail_templates[p]]

_save_mail_templates(data) == <<data>>

\* data.get(position, {}).get(key, '')
TemplateText(data, position, key) ==
    IF position \in DOMAIN data THEN data[position][key] ELSE ""

\* POST /admin/positions/save_template
save_mail_template(auth, position, subject, body) ==
    IF ~_require_admin(auth, admin_token)
    THEN Forbidden /\ UNCHANGED mail_templates
    ELSE IF Strip(position) = ""
    THEN /\ last' = Response("save_template", MsgPositionRequired, 0, "", "")
         /\ UNCHANGED <<regs, uploads, admin_token, issued, mail_templates>>
    ELSE /\ mail_templates' = _save_mail_templates(
              [p \in DOMAIN _load_mail_templates(mail_templates)
                        \cup {Strip(position)} |->
                 IF p = Strip(position)
                 THEN [subject |->
                          Or(Strip(subject),
                             TemplateText(_load_mail_templates(mail_templates),
                                          p, "subject")),
                       body |->
                          Or(Strip(body),
                             TemplateText(_load_mail_templates(mail_templates),
                                          p, "body"))]
                 ELSE _load_mail_templates(mail_templates)[p]])
         /\ last' = Response("save_template",
                             MsgTemplateSaved(Strip(position)), 0,
                             Strip(position), "")
         /\ UNCHANGED <<regs, uploads, admin_token, issued>>

_default_site_content ==
    [hero |->
        [badge |-> "PAID OPPORTUNITY", title |-> "IgnividhaTech",
         subtitle |-> "Developer Recruitment", ctaLabel |-> "Register Now",
         ctaLink |-> "/register"],
     about |->
        [leftText |-> "Join our remote developer team on a project-by-project basis. Earn stipends for completed work, not a fixed salary.",
         rightText |-> "Gain real-world experience on exciting projects with flexible hours. Work from anywhere and meet project deadlines to build your portfolio."],
     positions |->
        [frontend |-> "Build responsive user interfaces and web applications.",
         backend |-> "Design APIs, manage databases, and write server-side logic.",
         fullstack |-> "Handle both client-side and server-side infrastructure.",
         app |-> "Develop Android/iOS apps focused on performance."],
     qualifications |->
        [coreRequirement |-> "Required: Upload at least one offline Hackathon Certificate. You can submit multiple certificates if available.",
         students |-> <<"Provide your College ID Card for verification.",
                        "Including project/work samples is optional but recommended.">>,
         graduates |-> <<"Submit any offline internship certificates.",
                         "Include project/work samples to showcase your experience.">>]]

\* _load_site_content: what the file holds (the application writes every
\* key), or the defaults
_load_site_content(doc) ==
    IF doc = <<>> THEN _default_site_content ELSE doc[1]

_save_site_content(data) == <<data>>

\* [line.strip() for line in text.splitlines() if line.strip()], the text
\* given as its lines
StrippedLines(lines) ==
    LET Kept(line) == Strip(line) # ""
    IN [k \in DOMAIN SelectSeq(lines, Kept) |->
            Strip(SelectSeq(lines, Kept)[k])]

\* the content after the form fields have been applied to it: a field that
\* is empty after strip() keeps what was there
ApplySiteForm(content, form) ==
    [hero |->
        [badge |-> Or(Strip(form.hero_badge), content.hero.badge),
         title |-> Or(Strip(form.hero_title), content.hero.title),
         subtitle |-> Or(Strip(form.hero_subtitle), content.hero.subtitle),
         ctaLabel |-> Or(Strip(form.cta_label), content.hero.ctaLabel),
         ctaLink |-> Or(Strip(form.cta_link), content.hero.ctaLink)],
     about |->
        [leftText |-> Or(Strip(form.about_left), content.about.leftText),
         rightText |-> Or(Strip(form.about_right), content.about.rightText)],
     positions |->
        [frontend |-> Or(Strip(form.pos_frontend), content.positions.frontend),
         backend |-> Or(Strip(form.pos_backend), content.positions.backend),
         fullstack |-> Or(Strip(form.pos_fullstack),
                          content.positions.fullstack),
         app |-> Or(Strip(form.pos_app), content.positions.app)],
     qualifications |->
        [coreRequirement |-> Or(Strip(form.qual_core),
                                content.qualifications.coreRequirement),
         students |-> IF StrippedLines(form.qual_students) # <<>>
                      THEN StrippedLines(form.qual_students)
                      ELSE content.qualifications.students,
         graduates |-> IF StrippedLines(form.qual_graduates) # <<>>
                       THEN StrippedLines(form.qual_graduates)
                       ELSE content.qualifications.graduates]]

\* POST /admin/settings/site_content
admin_save_site_content(auth, form) ==
    IF ~_require_admin(auth, admin_token)
    THEN Forbidden /\ UNCHANGED site_content
    ELSE /\ site_content' = _save_site_content(
                ApplySiteForm(_load_site_content(site_content), form))
         /\ last' = Response("site_content", MsgSiteContent, 0, "", "")
         /\ UNCHANGED <<regs, uploads, admin_token, issued>>

(***************************************************************************)
(* The bulk mail dispatcher (_send_bulk_email).  The transport is given by *)
(* what it answers: connect is "" when the SMTP session is established     *)
(* and the exception text otherwise, outcomes[k] is "" when the k-th       *)
(* send_message succeeds and the exception text otherwise (a send beyond   *)
(* the listed ones succeeds).                                              *)
(***************************************************************************)
MsgSmtpNotConfigured == "SMTP is not configured (missing SMTP_HOST/SMTP_FROM)."

\* {e.strip().lower() for e in recipients if e}
RecipientSet(recipients) ==
    {Lower(Strip(recipients[i])) :
        i \in {j \in DOMAIN recipients : recipients[j] # ""}}

\* list(set): the elements of the set in whatever order the build gives
Orders(S) ==
    {seq \in [1..Cardinality(S) -> S] :
        \A i, j \in 1..Cardinality(S) : i # j => seq[i] # seq[j]}

\* int(batch_size) if batch_size else int(os.environ.get('SMTP_BATCH_SIZE',
\* '50')), 50 when int() raises; env_size is <<>> when the variable is not set
BatchSize(batch_size, env_size) ==
    IF batch_size # 0 THEN batch_size
    ELSE IF env_size = <<>> THEN DefaultBatchSize
    ELSE IF ParseInt(env_size).ok THEN ParseInt(env_size).value
    ELSE DefaultBatchSize

\* the loop `for i in range(0, len(to_list), max(1, bsz))` from index i on,
\* the next send being the k-th: recipients counted as sent, exception
\* texts, and the to_addrs of every send_message call
RECURSIVE SendChunks(_, _, _, _, _)
SendChunks(to_list, i, size, outcomes, k) ==
    IF i >= Len(to_list) THEN [sent |-> 0, errors |-> <<>>, calls |-> <<>>]
    ELSE
        LET chunk == SubSeq(to_list, i + 1,
                            IF i + size < Len(to_list) THEN i + size
                            ELSE Len(to_list))
            outcome == IF k <= Len(outcomes) THEN outcomes[k] ELSE ""
            rest == SendChunks(to_list, i + size, size, outcomes, k + 1)
        IN [sent |-> (IF outcome = "" THEN Len(chunk) ELSE 0) + rest.sent,
            errors |-> (IF outcome = "" THEN <<>> ELSE <<outcome>>)
                          \o rest.errors,
            calls |-> <<chunk>> \o rest.calls]

\* '; '.join(errors)
RECURSIVE Join(_)
Join(errors) ==
    IF errors = <<>> THEN ""
    ELSE IF Len(errors) = 1 THEN errors[1]
    ELSE errors[1] \o "; " \o Join(Tail(errors))

\* what a call of the dispatcher gives: the pair it returns (err = Absent
\* for None), the list it built, whether it opened an SMTP session, and the
\* to_addrs of its send_message calls
MailResult(sent, err, to_list, contacted, calls) ==
    [op |-> "send_bulk", sent |-> sent, err |-> err, to_list |-> to_list,
     contacted |-> contacted, calls |-> calls]

\* _send_bulk_email for the call `call`, list(set) giving the order to_list
_send_bulk_email(call, to_list) ==
    IF call.env.SMTP_HOST = "" \/ call.env.SMTP_FROM = ""
    THEN MailResult(0, MsgSmtpNotConfigured, <<>>, FALSE, <<>>)
    ELSE IF to_list = <<>>
    THEN MailResult(0, Absent, to_list, FALSE, <<>>)
    ELSE IF call.connect # ""
    THEN MailResult(0, call.connect, to_list, TRUE, <<>>)
    ELSE
        LET r == SendChunks(to_list, 0,
                            Max(1, BatchSize(call.batch_size,
                                             call.env.SMTP_BATCH_SIZE)),
                            call.outcomes, 1)
        IN MailResult(r.sent,
                      IF r.errors # <<>> THEN Join(r.errors) ELSE Absent,
                      to_list, TRUE, r.calls)

(***************************************************************************)
(* The requests the model sends.                                           *)
(***************************************************************************)
CertPdf == Upload(<<"cert", "pdf">>)
ProofPng == Upload(<<"proof", "png">>)
ToolExe == Upload(<<"tool", "exe">>)

\* a complete Student submission
StudentForm ==
    [fullname |-> "Asha", email |-> "asha@example.com",
     contact |-> "9000000000", status |-> "Student",
     positions |-> <<"Backend Developer", "App Developer">>,
     dob |-> <<>>, age |-> <<"2", "0">>,
     hackathon_cert |-> <<CertPdf>>, internship_cert |-> <<>>,
     college_id |-> ProofPng,
     student_project_link |-> <<>>, student_project_file |-> <<>>,
     graduate_project_link |-> <<>>, graduate_project_file |-> <<>>,
     insta_follow_proof |-> ProofPng, linkedin_follow_proof |-> ProofPng,
     payment_proof |-> ProofPng, profile_photo |-> NoFile,
     id_proof_type |-> "Aadhaar Card", id_proof_file |-> ProofPng,
     github |-> "gh/asha", linkedin |-> "li/asha", instagram |-> "ig/asha",
     portfolio |-> ""]

\* a complete Graduate submission
GraduateForm ==
    [StudentForm EXCEPT !.status = "Graduate",
                        !.positions = <<"Backend Developer">>,
                        !.internship_cert = <<CertPdf>>,
                        !.college_id = NoFile]

\* the submissions of the review specification: one that passes and one
\* that fails
ReviewForms == {StudentForm, [StudentForm EXCEPT !.age = <<"3", "0">>]}

ReviewToday == <<2026, 11, 4>>

\* the age inputs of a submission: the age field, the dob field, the clock
AgeInputs(age, dob, today) == [age |-> age, dob |-> dob, today |-> today]

NoProbe == AgeInputs(<<>>, <<>>, ReviewToday)

NoAuth == [session |-> FALSE, args |-> "", form |-> "", header |-> ""]
BySession == [NoAuth EXCEPT !.session = TRUE]

\* how a request of the review specification identifies itself
ReviewAuth == {NoAuth, BySession}

RegIds == 1..MaxIssued

SelectInputs ==
    {"", " Backend Developer ", "App Developer", "Frontend Developer"}

RawIdLists ==
    {<<>>, <<<<"1">>>>, <<<<"1">>, <<"2">>>>, <<<<"2">>, <<"x">>>>,
     <<<<>>, <<"3">>>>}

(***************************************************************************)
(* The review specification: an empty store, then any sequence of          *)
(* submissions and admin requests.                                         *)
(***************************************************************************)
Init ==
    /\ regs = <<>>
    /\ uploads = {}
    /\ admin_token = "s3cret"
    /\ issued = <<>>
    /\ last = Response("start", "", 0, "", "")
    /\ probe = NoProbe
    /\ updates = <<>>
    /\ admin_credentials = <<>>
    /\ mail_templates = <<>>
    /\ site_content = <<>>
    /\ carried = 0
    /\ inflight = <<>>

Submit ==
    /\ Len(issued) < MaxIssued
    /\ \E form \in ReviewForms : Register(form, ReviewToday)
    /\ UNCHANGED <<probe, settings>>

Select ==
    /\ \E auth \in ReviewAuth, id \in RegIds, pos \in SelectInputs :
          SelectRegistration(auth, id, pos)
    /\ UNCHANGED <<probe, settings>>

Reject ==
    /\ \E auth \in ReviewAuth, id \in RegIds : RejectRegistration(auth, id)
    /\ UNCHANGED <<probe, settings>>

Pause ==
    /\ \E auth \in ReviewAuth, id \in RegIds : PauseRegistration(auth, id)
    /\ UNCHANGED <<probe, settings>>

Delete ==
    /\ \E auth \in ReviewAuth, id \in RegIds : DeleteRegistration(auth, id)
    /\ UNCHANGED <<probe, settings>>

DeleteAll ==
    /\ \E auth \in ReviewAuth : DeleteAllRejected(auth)
    /\ UNCHANGED <<probe, settings>>

DeleteSelected ==
    /\ \E auth \in ReviewAuth, raw_ids \in RawIdLists :
          DeleteSelectedRejected(auth, raw_ids)
    /\ UNCHANGED <<probe, settings>>

Next ==
    \/ Submit
    \/ Select
    \/ Reject
    \/ Pause
    \/ Delete
    \/ DeleteAll
    \/ DeleteSelected

Spec == Init /\ [][Next]_vars

(***************************************************************************)
(* The intake specification: an empty store, then submissions that each    *)
(* differ from a complete one in one field (or in one early and one late   *)
(* field), and deletions.                                                  *)
(***************************************************************************)
IntakeToday == <<2026, 11, 4>>

AgeTexts ==
    {<<"1", "7">>, <<"1", "8">>, <<"2", "7">>, <<"2", "8">>,
     <<"a", "b", "c">>, <<"-", "5">>}

\* dates of birth for a submission without an age field: the birthday today,
\* tomorrow, earlier and later in the year, and texts strptime refuses
BirthDates ==
    {<<>>, <<2008, 11, 4>>, <<2008, 11, 5>>, <<2008, 10, 5>>, <<2008, 12, 1>>,
     <<1998, 11, 5>>, <<1998, 11, 4>>, <<2008, 2, 30>>, <<2008>>}

RECURSIVE Repeat(_, _)
Repeat(x, n) == IF n = 0 THEN <<>> ELSE <<x>> \o Repeat(x, n - 1)

EarlyVariants(f) ==
    {[f EXCEPT !.fullname = ""], [f EXCEPT !.email = ""],
     [f EXCEPT !.contact = ""], [f EXCEPT !.status = ""],
     [f EXCEPT !.dob = <<1990, 1, 1>>],
     [f EXCEPT !.positions = <<>>],
     [f EXCEPT !.positions = <<"Data Scientist">>],
     [f EXCEPT !.positions = <<"Backend Developer", "App Developer",
                               "Frontend Developer">>]}
    \cup {[f EXCEPT !.age = a] : a \in AgeTexts}
    \cup {[f EXCEPT !.age = <<>>, !.dob = d] : d \in BirthDates}

LateVariants(f) ==
    {[f EXCEPT !.hackathon_cert = <<>>],
     [f EXCEPT !.hackathon_cert = <<ToolExe>>],
     [f EXCEPT !.hackathon_cert = <<ToolExe, CertPdf>>],
     [f EXCEPT !.hackathon_cert = <<Upload(<<"my cert", "PDF">>)>>],
     [f EXCEPT !.internship_cert = <<>>],
     [f EXCEPT !.internship_cert = <<ToolExe>>],
     [f EXCEPT !.internship_cert = Repeat(ToolExe, InternshipCap) \o <<CertPdf>>],
     [f EXCEPT !.college_id = NoFile],
     [f EXCEPT !.college_id = ToolExe],
     [f EXCEPT !.student_project_link = <<"", "git/p2">>,
               !.student_project_file = <<CertPdf>>],
     [f EXCEPT !.insta_follow_proof = NoFile],
     [f EXCEPT !.insta_follow_proof = ToolExe],
     [f EXCEPT !.linkedin_follow_proof = NoFile],
     [f EXCEPT !.payment_proof = Upload(<<>>)],
     [f EXCEPT !.id_proof_type = ""],
     [f EXCEPT !.id_proof_type = "Passport"],
     [f EXCEPT !.id_proof_type = " Aadhaar Card "],
     [f EXCEPT !.id_proof_file = NoFile],
     [f EXCEPT !.github = " "],
     [f EXCEPT !.github = " gh/asha "],
     [f EXCEPT !.linkedin = ""],
     [f EXCEPT !.instagram = ""]}

\* one early and one late departure in the same submission
DoubleVariants(f) ==
    UNION {LateVariants(e) :
            e \in {[f EXCEPT !.fullname = ""],
                   [f EXCEPT !.age = <<"2", "8">>],
                   [f EXCEPT !.age = <<"1", "8">>],
                   [f EXCEPT !.positions = <<>>]}}

\* submissions that break several rules at once
SeveralVariants(f) ==
    {[f EXCEPT !.fullname = "", !.age = <<>>],
     [f EXCEPT !.age = <<"2", "8">>, !.positions = <<>>],
     [f EXCEPT !.age = <<"a", "b", "c">>, !.positions = <<>>],
     [f EXCEPT !.hackathon_cert = <<>>, !.internship_cert = <<>>,
               !.insta_follow_proof = NoFile],
     [f EXCEPT !.internship_cert = <<ToolExe>>, !.insta_follow_proof = NoFile,
               !.github = ""],
     [f EXCEPT !.insta_follow_proof = NoFile, !.linkedin_follow_proof = NoFile],
     [f EXCEPT !.linkedin_follow_proof = ToolExe, !.payment_proof = NoFile],
     [f EXCEPT !.payment_proof = NoFile, !.id_proof_type = "Passport"],
     [f EXCEPT !.id_proof_type = "", !.id_proof_file = NoFile],
     [f EXCEPT !.id_proof_file = ToolExe, !.github = " "],
     [f EXCEPT !.email = "", !.age = <<"1", "7">>, !.positions = <<>>,
               !.hackathon_cert = <<>>, !.internship_cert = <<>>,
               !.insta_follow_proof = NoFile, !.linkedin_follow_proof = NoFile,
               !.payment_proof = NoFile, !.id_proof_type = "",
               !.id_proof_file = NoFile, !.instagram = ""]}

IntakeForms ==
    UNION {{f} \cup EarlyVariants(f) \cup LateVariants(f) \cup DoubleVariants(f)
               \cup SeveralVariants(f) :
            f \in {StudentForm, GraduateForm}}

IntakeSubmit ==
    /\ Len(issued) < MaxIntake
    /\ Cardinality(uploads) < MaxUploads
    /\ \E form \in IntakeForms : Register(form, IntakeToday)
    /\ UNCHANGED <<probe, settings>>

\* a submission once the model has seen MaxIntake registrations: only the
\* ones that are turned away
IntakeRefused ==
    /\ Len(issued) = MaxIntake
    /\ Cardinality(uploads) < MaxUploads
    /\ \E form \in IntakeForms :
          /\ Intake(form, IntakeToday, uploads).msg # Running
          /\ Register(form, IntakeToday)
    /\ UNCHANGED <<probe, settings>>

IntakeDelete ==
    /\ \E id \in 1..MaxIntake : DeleteRegistration(BySession, id)
    /\ UNCHANGED <<probe, settings>>

IntakeNext ==
    \/ IntakeSubmit
    \/ IntakeRefused
    \/ IntakeDelete

SpecIntake == Init /\ [][IntakeNext]_vars

(***************************************************************************)
(* The age specification: one submission, complete but for its age and     *)
(* dob fields, sent to the empty store on a given day.                     *)
(***************************************************************************)
ProbeAgeTexts == {<<>>, <<"2", "0">>, <<"0", "7">>, <<"a", "b", "c">>}

ProbeYears == {1998, 2000, 2004, 2008, 2010}
ProbeMonths == {1, 2, 6, 11, 12}
ProbeDays == {1, 4, 5, 28, 29, 30, 31}

ProbeBirthDates ==
    {<<>>, <<2008>>}
    \cup {<<y, m, d>> : y \in ProbeYears, m \in ProbeMonths, d \in ProbeDays}

ProbeTodays == {<<2026, 11, 4>>, <<2026, 1, 1>>, <<2028, 2, 29>>}

AgeProbes ==
    {AgeInputs(a, d, t) :
        a \in ProbeAgeTexts, d \in ProbeBirthDates, t \in ProbeTodays}

AgeInit ==
    /\ regs = <<>>
    /\ uploads = {}
    /\ admin_token = "s3cret"
    /\ issued = <<>>
    /\ last = Response("start", "", 0, "", "")
    /\ probe \in AgeProbes
    /\ updates = <<>>
    /\ admin_credentials = <<>>
    /\ mail_templates = <<>>
    /\ site_content = <<>>
    /\ carried = 0
    /\ inflight = <<>>

AgeSubmit ==
    /\ last.op = "start"
    /\ Register([StudentForm EXCEPT !.age = probe.age, !.dob = probe.dob],
                probe.today)
    /\ UNCHANGED <<probe, settings>>

AgeNext == AgeSubmit

SpecAge == AgeInit /\ [][AgeNext]_vars

(***************************************************************************)
(* The guard specification: with or without a configured ADMIN_TOKEN, one  *)
(* submission and then admin requests that identify themselves in every    *)
(* way; probe.auth is how the latest admin request identified itself.      *)
(***************************************************************************)
ByArgs == [NoAuth EXCEPT !.args = "s3cret"]
ByForm == [NoAuth EXCEPT !.form = "s3cret"]
ByHeader == [NoAuth EXCEPT !.header = "s3cret"]
WrongArgs == [NoAuth EXCEPT !.args = "guess"]
WrongArgsRightHeader == [NoAuth EXCEPT !.args = "guess", !.header = "s3cret"]

GuardAuth ==
    {NoAuth, BySession, ByArgs, ByForm, ByHeader, WrongArgs,
     WrongArgsRightHeader}

AuthProbe(auth) == [auth |-> auth]

\* a form of the site-content page that fills in no field
EmptySiteForm ==
    [hero_badge |-> "", hero_title |-> "", hero_subtitle |-> "",
     cta_label |-> "", cta_link |-> "", about_left |-> "", about_right |-> "",
     pos_frontend |-> "", pos_backend |-> "", pos_fullstack |-> "",
     pos_app |-> "", qual_core |-> "", qual_students |-> <<>>,
     qual_graduates |-> <<>>]

SiteForms ==
    {EmptySiteForm,
     [EmptySiteForm EXCEPT !.hero_title = "Hiring",
                           !.qual_students = <<" ", "Bring your ID">>]}

GuardInit ==
    /\ regs = <<>>
    /\ uploads = {}
    /\ admin_token \in {"", "s3cret"}
    /\ issued = <<>>
    /\ last = Response("start", "", 0, "", "")
    /\ probe = AuthProbe(NoAuth)
    /\ updates = <<>>
    /\ admin_credentials = <<>>
    /\ mail_templates = <<>>
    /\ site_content = <<>>
    /\ carried = 0
    /\ inflight = <<>>

\* an admin request comes in identifying itself by auth
Asked(auth) ==
    /\ _require_admin(auth, admin_token) => carried < MaxCarried
    /\ probe' = AuthProbe(auth)
    /\ carried' = IF _require_admin(auth, admin_token) THEN carried + 1
                  ELSE carried
    /\ UNCHANGED inflight

GuardSubmit ==
    /\ Len(issued) < MaxIntake
    /\ Register(StudentForm, ReviewToday)
    /\ UNCHANGED <<probe, settings>>

GuardSelect ==
    \E auth \in GuardAuth, id \in 1..MaxIntake :
        /\ SelectRegistration(auth, id, "App Developer")
        /\ Asked(auth)
        /\ UNCHANGED <<updates, admin_credentials, mail_templates, site_content>>

GuardReject ==
    \E auth \in GuardAuth, id \in 1..MaxIntake :
        /\ RejectRegistration(auth, id)
        /\ Asked(auth)
        /\ UNCHANGED <<updates, admin_credentials, mail_templates, site_content>>

GuardPause ==
    \E auth \in GuardAuth, id \in 1..MaxIntake :
        /\ PauseRegistration(auth, id)
        /\ Asked(auth)
        /\ UNCHANGED <<updates, admin_credentials, mail_templates, site_content>>

GuardDelete ==
    \E auth \in GuardAuth, id \in 1..MaxIntake :
        /\ DeleteRegistration(auth, id)
        /\ Asked(auth)
        /\ UNCHANGED <<updates, admin_credentials, mail_templates, site_content>>

GuardDeleteAll ==
    \E auth \in GuardAuth :
        /\ DeleteAllRejected(auth)
        /\ Asked(auth)
        /\ UNCHANGED <<updates, admin_credentials, mail_templates, site_content>>

GuardDeleteSelected ==
    \E auth \in GuardAuth :
        /\ DeleteSelectedRejected(auth, <<<<"1">>>>)
        /\ Asked(auth)
        /\ UNCHANGED <<updates, admin_credentials, mail_templates, site_content>>

GuardAddUpdate ==
    \E auth \in GuardAuth, message \in {" ", " Results are out "} :
        /\ admin_add_update(auth, message)
        /\ Asked(auth)
        /\ UNCHANGED <<admin_credentials, mail_templates, site_content>>

GuardDeleteUpdate ==
    \E auth \in GuardAuth, index \in {0, 1} :
        /\ admin_delete_update(auth, index)
        /\ Asked(auth)
        /\ UNCHANGED <<admin_credentials, mail_templates, site_content>>

GuardCredentials ==
    \E auth \in GuardAuth, new_password \in {" ", "pw"} :
        /\ admin_update_credentials(auth, "root", new_password)
        /\ Asked(auth)
        /\ UNCHANGED <<updates, mail_templates, site_content>>

GuardTemplate ==
    \E auth \in GuardAuth, position \in {"", "App Developer"} :
        /\ save_mail_template(auth, position, "Welcome", "")
        /\ Asked(auth)
        /\ UNCHANGED <<updates, admin_credentials, site_content>>

GuardSiteContent ==
    \E auth \in GuardAuth, form \in SiteForms :
        /\ admin_save_site_content(auth, form)
        /\ Asked(auth)
        /\ UNCHANGED <<updates, admin_credentials, mail_templates>>

GuardNext ==
    \/ GuardSubmit
    \/ GuardSelect
    \/ GuardReject
    \/ GuardPause
    \/ GuardDelete
    \/ GuardDeleteAll
    \/ GuardDeleteSelected
    \/ GuardAddUpdate
    \/ GuardDeleteUpdate
    \/ GuardCredentials
    \/ GuardTemplate
    \/ GuardSiteContent

SpecGuard == GuardInit /\ [][GuardNext]_vars

(***************************************************************************)
(* The mail specification: one call of the dispatcher, its arguments, its  *)
(* environment and the answers of the transport drawn at the start.        *)
(***************************************************************************)
MailEnv(host, from, size) ==
    [SMTP_HOST |-> host, SMTP_FROM |-> from, SMTP_BATCH_SIZE |-> size]

Configured == MailEnv("smtp.example.com", "hr@example.com", <<>>)

MailCall(recipients, batch_size, env, connect, outcomes) ==
    [recipients |-> recipients, batch_size |-> batch_size, env |-> env,
     connect |-> connect, outcomes |-> outcomes]

\* entries of a recipient list: two spellings of one address, another
\* address, an empty entry and one of whitespace
RecipientEntries ==
    {"asha@example.com", " Asha@Example.com ", "bo@example.com", "", " "}

RecipientLists ==
    UNION {[1..n -> RecipientEntries] : n \in 0..MaxRecipients}

\* batch_size argument and SMTP_BATCH_SIZE of the environment
BatchOptions ==
    {<<1, <<>>>>, <<2, <<>>>>, <<-1, <<>>>>, <<0, <<>>>>, <<0, <<"2">>>>,
     <<0, <<"x">>>>}

MailOutcomes ==
    {<<>>, <<"550 rejected">>, <<"", "421 busy">>,
     <<"550 rejected", "421 busy">>, <<"550 rejected", "", "421 busy">>}

MailCalls ==
    {MailCall(r, b[1], [Configured EXCEPT !.SMTP_BATCH_SIZE = b[2]], "", o) :
        r \in RecipientLists, b \in BatchOptions, o \in MailOutcomes}
    \cup {MailCall(r, 0, Configured, "Connection refused", <<>>) :
            r \in RecipientLists}
    \cup {MailCall(r, 0, e, "", <<>>) :
            r \in RecipientLists,
            e \in {MailEnv("", "hr@example.com", <<>>),
                   MailEnv("smtp.example.com", "", <<>>)}}

MailInit ==
    /\ regs = <<>>
    /\ uploads = {}
    /\ admin_token = "s3cret"
    /\ issued = <<>>
    /\ last = Response("start", "", 0, "", "")
    /\ probe \in MailCalls
    /\ updates = <<>>
    /\ admin_credentials = <<>>
    /\ mail_templates = <<>>
    /\ site_content = <<>>
    /\ carried = 0
    /\ inflight = <<>>

MailSend ==
    /\ last.op = "start"
    /\ \E to_list \in Orders(RecipientSet(probe.recipients)) :
          last' = _send_bulk_email(probe, to_list)
    /\ UNCHANGED <<regs, uploads, admin_token, issued, probe, settings>>

MailNext == MailSend

SpecMail == MailInit /\ [][MailNext]_vars

(***************************************************************************)
(* The race specification.  The server handles requests at the same time   *)
(* and takes no lock on registrations.json: a request that changes the     *)
(* collection loads the whole list (_load_list), changes its own copy and  *)
(* saves the whole list (_save_list).  A worker's request is a step that   *)
(* does everything up to and including the load, and a later step that     *)
(* saves and answers.  The store starts with one registration.             *)
(***************************************************************************)
Workers == 1..MaxWorkers

\* a worker's request: where it is (idle, loaded, done), the handler, the id
\* and position it names, the intake result of a submission, the list it
\* loaded, and the flash message once it has answered
Request(phase, op, id, pos, c, loaded, msg) ==
    [phase |-> phase, op |-> op, id |-> id, pos |-> pos, c |-> c,
     loaded |-> loaded, msg |-> msg]

NoRequest == Request("idle", "", 0, "", <<>>, <<>>, "")

\* what a request does with the list it works on: whether it saves, the list
\* it saves, and its flash message
Effect(req, doc) ==
    CASE req.op = "register" ->
            [saves |-> TRUE, doc |-> StoreRegistration(req.c, doc),
             msg |-> MsgSuccess]
      [] req.op = "select" ->
            [saves |-> _set_selected_with_position(doc, req.id, req.pos).updated,
             doc |-> _set_selected_with_position(doc, req.id, req.pos).doc,
             msg |-> IF _set_selected_with_position(doc, req.id, req.pos).updated
                     THEN MsgSelected ELSE MsgInvalidPosition]
      [] req.op = "reject" ->
            [saves |-> _set_review_status(doc, req.id, "rejected").updated,
             doc |-> _set_review_status(doc, req.id, "rejected").doc,
             msg |-> MsgRejected]
      [] req.op = "pause" ->
            [saves |-> _set_review_status(doc, req.id, "paused").updated,
             doc |-> _set_review_status(doc, req.id, "paused").doc,
             msg |-> MsgPaused]
      [] req.op = "delete" ->
            [saves |-> TRUE,
             doc |-> _save_list(SelectSeq(_load_list(doc),
                                          LAMBDA r : r.id # req.id)),
             msg |-> MsgDeleted]

\* a server that serialises the requests: each works on the list as it is
\* when the request saves
LoadedUnderLockMutant(w) == regs

\* the list a worker's request works on: the one it loaded, whatever has been
\* saved since
Loaded(w) == inflight[w].loaded

\* the store after one submission
RaceStart == Intake(StudentForm, ReviewToday, {})

RaceInit ==
    /\ regs = StoreRegistration(RaceStart, <<>>)
    /\ uploads = RaceStart.store
    /\ admin_token = "s3cret"
    /\ issued = <<1>>
    /\ last = Response("register", MsgSuccess, 1, "", "")
    /\ probe = NoProbe
    /\ updates = <<>>
    /\ admin_credentials = <<>>
    /\ mail_templates = <<>>
    /\ site_content = <<>>
    /\ carried = 0
    /\ inflight = [w \in Workers |-> NoRequest]

\* a request passes its checks and loads the list
Load(w, op, id, pos, c) ==
    /\ inflight[w].phase = "idle"
    /\ inflight' = [inflight EXCEPT
                       ![w] = Request("loaded", op, id, pos, c, regs, "")]
    /\ UNCHANGED <<regs, admin_token, last, probe, updates, admin_credentials,
                   mail_templates, site_content, carried>>

\* POST /register up to line 372: the checks, the uploads, the load and the
\* id of line 373
RaceRegister ==
    \E w \in Workers, form \in ReviewForms :
        /\ Intake(form, ReviewToday, uploads).msg = Running
        /\ Load(w, "register", NextId(_load_list(regs)), "",
                Intake(form, ReviewToday, uploads))
        /\ uploads' = Intake(form, ReviewToday, uploads).store
        /\ issued' = Append(issued, NextId(_load_list(regs)))

\* select up to the load of _set_selected_with_position
RaceSelect ==
    \E w \in Workers, id \in RegIds,
       pos \in {" Backend Developer ", "Frontend Developer"} :
        /\ _require_admin(BySession, admin_token)
        /\ Load(w, "select", id, Strip(pos), <<>>)
        /\ UNCHANGED <<uploads, issued>>

\* reject up to the load of _set_review_status
RaceReject ==
    \E w \in Workers, id \in RegIds :
        /\ _require_admin(BySession, admin_token)
        /\ Load(w, "reject", id, "", <<>>)
        /\ UNCHANGED <<uploads, issued>>

\* pause up to the load of _set_review_status
RacePause ==
    \E w \in Workers, id \in RegIds :
        /\ _require_admin(BySession, admin_token)
        /\ Load(w, "pause", id, "", <<>>)
        /\ UNCHANGED <<uploads, issued>>

\* delete up to its load
RaceDelete ==
    \E w \in Workers, id \in RegIds :
        /\ _require_admin(BySession, admin_token)
        /\ Load(w, "delete", id, "", <<>>)
        /\ UNCHANGED <<uploads, issued>>

\* the rest of a request: it saves the list it worked on, unless it found
\* nothing to change, and answers
RaceSave ==
    \E w \in Workers :
        /\ inflight[w].phase = "loaded"
        /\ regs' = IF Effect(inflight[w], Loaded(w)).saves
                   THEN Effect(inflight[w], Loaded(w)).doc
                   ELSE regs
        /\ last' = Response(inflight[w].op,
                            Effect(inflight[w], Loaded(w)).msg,
                            inflight[w].id, inflight[w].pos,
                            StatusOf(Loaded(w), inflight[w].id))
        /\ inflight' = [inflight EXCEPT
                           ![w].phase = "done",
                           ![w].msg = Effect(inflight[w], Loaded(w)).msg]
        /\ UNCHANGED <<uploads, admin_token, issued, probe, updates,
                       admin_credentials, mail_templates, site_content,
                       carried>>

RaceNext ==
    \/ RaceRegister
    \/ RaceSelect
    \/ RaceReject
    \/ RacePause
    \/ RaceDelete
    \/ RaceSave

SpecRace == RaceInit /\ [][RaceNext]_vars

(***************************************************************************)
(* Claims about identity and the review state machine (Spec).              *)
(***************************************************************************)
RegistrationWithId(doc, reg_id) == doc[FirstWithId(doc, reg_id)]

Registered == last.op = "register" /\ last.msg = MsgSuccess

\* C1: a successful registration gets the id 1 + the largest id of the
\* collection the request loaded (1 when it was empty), and at no time do
\* two stored registrations share an id.
C1_IdIsOnePlusMax ==
    /\ [](\A i, j \in DOMAIN regs : i # j => regs[i].id # regs[j].id)
    /\ [][(last'.op = "register" /\ last'.msg = MsgSuccess) =>
            /\ Len(regs') = Len(regs) + 1
            /\ last'.id = regs'[1].id
            /\ IF regs = <<>> THEN regs'[1].id = 1
               ELSE /\ regs'[1].id - 1 \in Ids(regs)
                    /\ \A x \in Ids(regs) : x < regs'[1].id]_vars

\* C1 witness: a registration has been added to a store that already held one
C1_Witness == Registered /\ Len(regs) >= 2 /\ last.id = regs[1].id

\* C2: every id register() assigns is strictly greater than every id it
\* assigned before, deleted registrations included (no id is assigned twice).
C2_IdsNeverReused ==
    \A i, j \in DOMAIN issued : i < j => issued[i] < issued[j]

\* C3: select with a position that is not among the registration's positions
\* fails, and neither the collection nor anything else stored changes.
C3_SelectOutsidePositionsFails ==
    [][(/\ last'.op = "select"
        /\ last'.id \in Ids(regs)
        /\ ~Contains(RegistrationWithId(regs, last'.id).positions, last'.pos))
       => /\ last'.msg \in {MsgInvalidPosition, MsgChoosePosition}
          /\ regs' = regs
          /\ uploads' = uploads]_vars

\* C3 witness: an admin asked for a position the registration did not name
C3_Witness ==
    /\ last.op = "select"
    /\ last.msg = MsgInvalidPosition
    /\ last.pos = "Frontend Developer"
    /\ last.id \in Ids(regs)
    /\ ~Contains(RegistrationWithId(regs, last.id).positions, last.pos)

\* C4: a registration that carries a selected_position has it among its own
\* positions, and a selected registration carries a selected_position.
C4_SelectedPositionAmongPositions ==
    \A i \in DOMAIN regs :
        /\ regs[i].selected_position # Absent
              => Contains(regs[i].positions, regs[i].selected_position)
        /\ regs[i].review_status = "selected"
              => regs[i].selected_position # Absent

\* C4 witness: a registration was selected and then rejected, and still
\* carries the position it was selected for
C4_Witness ==
    \E i \in DOMAIN regs :
        /\ regs[i].review_status = "rejected"
        /\ regs[i].selected_position = "App Developer"

Refused == last.op = "register" /\ last.msg # MsgSuccess

\* C6: a submission that fails a validation step leaves the registration
\* collection as it was: no record is created and none is modified.
C6_RefusedLeavesCollection ==
    [][(last'.op = "register" /\ last'.msg # MsgSuccess) => regs' = regs]_vars

\* C6 witness: a submission was turned away at the last check (the social
\* links) while the collection held a registration
C6_Witness == Refused /\ last.msg = MsgSocials /\ regs # <<>>

\* C7: a submission that is refused leaves the uploads directory as it was:
\* none of its files has been saved.
C7_RefusedLeavesUploads ==
    [][(last'.op = "register" /\ last'.msg # MsgSuccess)
            => uploads' = uploads]_vars

ScalarsGiven(form) ==
    form.fullname # "" /\ form.email # "" /\ form.contact # ""
        /\ form.status # ""

ExplicitAge(text) ==
    CASE text = <<"2", "0">> -> 20
      [] text = <<"0", "7">> -> 7

\* T.year - D.year, minus 1 exactly when (T.month, T.day) is before
\* (D.month, D.day)
ExpectedAge(D, T) ==
    IF T[2] < D[2] \/ (T[2] = D[2] /\ T[3] < D[3])
    THEN T[1] - D[1] - 1
    ELSE T[1] - D[1]

\* what the request shows of the age it resolved: the age of the record it
\* stored, the age in the ineligibility message, or nothing
AgeShown(age) ==
    \/ last.msg = MsgSuccess /\ regs[1].age = age
    \/ last.msg = MsgAge(age) /\ regs = <<>>

\* C9: without an age field the age is T.year - D.year, minus 1 exactly when
\* (T.month, T.day) is before (D.month, D.day); an age field, when given, is
\* used instead of the date of birth; a submission that yields neither is
\* refused.
C9_AgeFromDob ==
    last.op = "register" =>
        IF probe.age \in {<<"2", "0">>, <<"0", "7">>}
        THEN AgeShown(ExplicitAge(probe.age))
        ELSE IF probe.age = <<>> /\ ValidDate(probe.dob)
        THEN AgeShown(ExpectedAge(probe.dob, probe.today))
        ELSE last.msg = MsgDob /\ regs = <<>>

\* C9 witness: the birthday is later in the month than today, so the year
\* difference 2026 - 2008 has been reduced to 17
C9_Witness ==
    /\ probe = AgeInputs(<<>>, <<2008, 11, 5>>, <<2026, 11, 4>>)
    /\ last.msg = MsgAge(17)

\* C10: every position of every stored registration is one of the canonical
\* positions, and a stored registration has one or two positions.
C10_PositionsCanonical ==
    \A i \in DOMAIN regs :
        /\ Len(regs[i].positions) \in 1..2
        /\ \A k \in DOMAIN regs[i].positions :
              \E n \in DOMAIN POSITIONS : regs[i].positions[k] = POSITIONS[n]

(***************************************************************************)
(* Claims about what a stored registration carries (SpecIntake).          *)
(***************************************************************************)
\* a submitted file that counts: it has a name whose extension is in the
\* allow-list
Acceptable(file) ==
    /\ file.present
    /\ Len(file.filename) >= 2
    /\ Lower(file.filename[Len(file.filename)])
          \in {"png", "jpg", "jpeg", "gif", "webp", "pdf", "docx", "zip"}

AnyAcceptable(files) == \E k \in DOMAIN files : Acceptable(files[k])

\* what C11 asks of a stored registration: the names it carries exist and
\* are files of the uploads directory
StoredName(name) == name # NoName /\ name \in uploads

\* C11: every stored registration has at least one stored hackathon
\* certificate, a stored Instagram, LinkedIn and payment proof and a stored
\* identity-proof file with a type of the fixed enum, and, when its status is
\* Graduate, at least one stored internship certificate; a submission is
\* stored only if each of these fields came with a file whose extension is in
\* the allow-list, the internship certificate among the first 10 submitted.
C11_RequiredAttachments ==
    /\ \A i \in DOMAIN regs :
          /\ regs[i].hackathon_certificates # <<>>
          /\ \A k \in DOMAIN regs[i].hackathon_certificates :
                StoredName(regs[i].hackathon_certificates[k])
          /\ StoredName(regs[i].instagram_proof)
          /\ StoredName(regs[i].linkedin_proof)
          /\ StoredName(regs[i].payment_proof)
          /\ StoredName(regs[i].identity_proof.file)
          /\ regs[i].identity_proof.type
                \in {"Aadhaar Card", "PAN Card", "DigiLocker"}
          /\ regs[i].status = "Graduate" =>
                /\ regs[i].internship_certificates # <<>>
                /\ \A k \in DOMAIN regs[i].internship_certificates :
                      StoredName(regs[i].internship_certificates[k])
    /\ \A form \in IntakeForms :
          Intake(form, IntakeToday, uploads).msg = Running =>
              /\ AnyAcceptable(form.hackathon_cert)
              /\ Acceptable(form.insta_follow_proof)
              /\ Acceptable(form.linkedin_follow_proof)
              /\ Acceptable(form.payment_proof)
              /\ Acceptable(form.id_proof_file)
              /\ form.status = "Graduate" =>
                    AnyAcceptable(SubSeq(form.internship_cert, 1,
                        IF Len(form.internship_cert) < 10
                        THEN Len(form.internship_cert) ELSE 10))

\* C11 witness: a Graduate submission has just been stored, with its
\* internship certificate and its proofs in the uploads directory
C11_Witness ==
    /\ last.op = "register"
    /\ last.msg = MsgSuccess
    /\ regs[1].status = "Graduate"
    /\ regs[1].internship_certificates # <<>>
    /\ StoredName(regs[1].internship_certificates[1])
    /\ StoredName(regs[1].identity_proof.file)

\* C12: every stored registration with status Student has a stored college
\* ID (a Student submission without an accepted college-ID file is refused).
C12_StudentHasCollegeId ==
    \A i \in DOMAIN regs :
        regs[i].status = "Student" => regs[i].college_id # NoName

\* the message of the earliest rule a submission breaks, in the order
\* required scalars, age resolution, age range, position count, hackathon
\* certificate, Graduate internship certificate, Instagram proof, LinkedIn
\* proof, payment proof, identity-proof type, identity-proof file, social
\* links (Running: it breaks none)
EarliestBroken(form) ==
    IF ~ScalarsGiven(form) THEN MsgRequired
    ELSE IF ~ResolveAge(form.age, form.dob, IntakeToday).ok THEN MsgDob
    ELSE IF ResolveAge(form.age, form.dob, IntakeToday).value < 18
              \/ ResolveAge(form.age, form.dob, IntakeToday).value > 27
    THEN MsgAge(ResolveAge(form.age, form.dob, IntakeToday).value)
    ELSE IF Len(form.positions) \notin 1..2 THEN MsgPositions
    ELSE IF ~AnyAcceptable(form.hackathon_cert) THEN MsgHackathon
    ELSE IF form.status = "Graduate"
              /\ ~AnyAcceptable(SubSeq(form.internship_cert, 1,
                      IF Len(form.internship_cert) < 10
                      THEN Len(form.internship_cert) ELSE 10))
    THEN MsgInternship
    ELSE IF ~Acceptable(form.insta_follow_proof) THEN MsgInsta
    ELSE IF ~Acceptable(form.linkedin_follow_proof) THEN MsgLinkedIn
    ELSE IF ~Acceptable(form.payment_proof) THEN MsgPayment
    ELSE IF Strip(form.id_proof_type)
              \notin {"Aadhaar Card", "PAN Card", "DigiLocker"}
    THEN MsgIdType
    ELSE IF ~Acceptable(form.id_proof_file) THEN MsgIdFile
    ELSE IF Strip(form.github) = "" \/ Strip(form.linkedin) = ""
              \/ Strip(form.instagram) = ""
    THEN MsgSocials
    ELSE Running

\* the place of a rule in that order, by its message
RuleOrder(msg) ==
    CASE msg = MsgRequired -> 1
      [] msg = MsgDob -> 2
      [] msg = MsgPositions -> 4
      [] msg = MsgHackathon -> 5
      [] msg = MsgInternship -> 6
      [] msg = MsgInsta -> 7
      [] msg = MsgLinkedIn -> 8
      [] msg = MsgPayment -> 9
      [] msg = MsgIdType -> 10
      [] msg = MsgIdFile -> 11
      [] msg = MsgSocials -> 12
      [] OTHER -> 3

\* step k of the order has left no trace in the handler's locals
NotProcessed(c, k) ==
    CASE k = 5 -> c.hackathon_certificates = <<>>
      [] k = 6 -> c.internship_certificates = <<>>
      [] k = 7 -> c.instagram_proof = NoName
      [] k = 8 -> c.linkedin_proof = NoName
      [] k = 9 -> c.payment_proof = NoName
      [] k = 10 -> c.id_proof_type = ""
      [] k = 11 -> c.id_proof_file = NoName
      [] k = 12 -> /\ c.social_media.github = ""
                   /\ c.social_media.linkedin = ""
                   /\ c.social_media.instagram = ""

RefusedInOrder(form, c) ==
    /\ c.msg = EarliestBroken(form)
    /\ c.msg # Running =>
          /\ \A k \in 5..12 : k > RuleOrder(c.msg) => NotProcessed(c, k)
          /\ RuleOrder(c.msg) <= 4 => c.store = uploads

\* C13: validation halts at the first failure: the one message a submission
\* gets is that of the earliest rule it breaks, in the order required
\* scalars, age resolution, age range, position count, hackathon certificate,
\* Graduate internship certificate, Instagram proof, LinkedIn proof, payment
\* proof, identity-proof type, identity-proof file, social links, and no
\* later step of that order is processed.
C13_FirstFailureHalts ==
    \A form \in IntakeForms :
        RefusedInOrder(form, Intake(form, IntakeToday, uploads))

\* C13 witness: a Graduate submission without a payment proof and with an
\* identity type outside the enum has been refused for its payment proof,
\* its Instagram and LinkedIn proofs being the last files saved
C13_Witness ==
    /\ last.op = "register"
    /\ last.msg = MsgPayment
    /\ EarliestBroken([GraduateForm EXCEPT !.payment_proof = NoFile,
                                           !.id_proof_type = "Passport"])
          = MsgPayment
    /\ \E s \in uploads : s.parts = <<"proof", "png">> /\ s.suffix = 1
    /\ ~\E s \in uploads : s.parts = <<"proof", "png">> /\ s.suffix = 2
    /\ regs = <<>>

(***************************************************************************)
(* Claims about creation and deletion (Spec).                              *)
(***************************************************************************)
\* C14: a valid submission creates a registration with review_status
\* pending and no selected_position at the front of the collection; the
\* registrations stored before follow it, unchanged and in the same order.
C14_NewRegistrationInFront ==
    [][(last'.op = "register" /\ last'.msg = MsgSuccess) =>
          /\ regs' # <<>>
          /\ regs'[1].id = last'.id
          /\ regs'[1].review_status = "pending"
          /\ regs'[1].selected_position = Absent
          /\ Tail(regs') = regs]_vars

\* C14 witness: a registration has been created in front of one that had
\* already been selected
C14_Witness ==
    /\ Registered
    /\ Len(regs) = 2
    /\ regs[1].review_status = "pending"
    /\ regs[2].review_status = "selected"
    /\ regs[2].selected_position = "Backend Developer"

\* the registrations of rs other than those Gone(r) holds of, in order
Without(rs, Gone(_)) ==
    LET Keep(r) == ~Gone(r) IN SelectSeq(rs, Keep)

\* C15: delete by id removes every registration with that id, whatever its
\* review_status, and leaves the others unchanged and in order; an id that
\* is not in the collection leaves the collection unchanged and is answered
\* like any other delete; a delete that follows a delete of the same id
\* changes nothing.
C15_DeleteById ==
    [][last'.op = "delete" =>
          /\ last'.msg = MsgDeleted
          /\ regs' = Without(regs, LAMBDA r : r.id = last'.id)
          /\ last'.id \notin Ids(regs) => regs' = regs
          /\ (last.op = "delete" /\ last.id = last'.id) => regs' = regs]_vars

\* C15 witness: a registration has been deleted while a selected one, which
\* is still there, was stored next to it
C15_Witness ==
    /\ last.op = "delete"
    /\ Len(issued) = 2
    /\ Len(regs) = 1
    /\ last.id \in {issued[1], issued[2]}
    /\ last.id \notin Ids(regs)
    /\ regs[1].review_status = "selected"

\* C16: delete-all-rejected leaves exactly the registrations that are not
\* rejected; delete-selected-rejected with the id set S removes exactly the
\* registrations that are rejected and have their id in S (an id of S that
\* matches no registration, or one that is not rejected, is skipped); what
\* is kept is unchanged and in order.
C16_BulkDeleteOnlyRejected ==
    [][/\ last'.op = "delete_all_rejected" =>
             regs' = Without(regs, LAMBDA r : r.review_status = "rejected")
       /\ last'.op = "delete_selected_rejected" =>
             regs' = Without(regs, LAMBDA r : /\ r.review_status = "rejected"
                                              /\ r.id \in last'.ids)]_vars

\* C16 witness: of two registrations chosen for deletion the rejected one
\* is gone and the other one is still there
C16_Witness ==
    /\ last.op = "delete_selected_rejected"
    /\ last.ids = {1, 2}
    /\ issued = <<1, 2>>
    /\ Len(regs) = 1
    /\ regs[1].review_status # "rejected"

(***************************************************************************)
(* Claims about the admin guard (SpecGuard).                               *)
(***************************************************************************)
\* everything the application keeps on disk
persisted ==
    <<regs, uploads, updates, admin_credentials, mail_templates, site_content>>

\* the requests of the admin handlers that change what is stored
AdminOps ==
    {"select", "reject", "pause", "delete", "delete_all_rejected",
     "delete_selected_rejected", "add_update", "delete_update", "credentials",
     "save_template", "site_content"}

\* the request carries the session flag, or a token equal to the configured
\* ADMIN_TOKEN in its query string, form or X-Admin-Token header
Authorised(auth) ==
    \/ auth.session
    \/ /\ admin_token # ""
       /\ \/ auth.args = admin_token
          \/ auth.form = admin_token
          \/ auth.header = admin_token

\* C17: an admin request (select, reject, pause, delete, bulk delete, update
\* add/delete, credential change, template save, site-content save) is
\* carried out only if it has the session flag or supplies the configured
\* ADMIN_TOKEN by query string, form field or header; with no ADMIN_TOKEN
\* configured only the session flag is accepted; a request that is not
\* authorised is denied and leaves everything stored unchanged.
C17_AdminOnly ==
    [][last'.op \in AdminOps \cup {"denied"} =>
          /\ last'.op \in AdminOps => Authorised(probe'.auth)
          /\ (last'.op \in AdminOps /\ admin_token = "") => probe'.auth.session
          /\ ~Authorised(probe'.auth) =>
                /\ last'.op = "denied"
                /\ last'.msg = Msg403
                /\ persisted' = persisted]_vars

\* C17 witness: with no ADMIN_TOKEN configured, a request that presents a
\* token has been denied after an announcement and a registration had been
\* stored
C17_Witness ==
    /\ admin_token = ""
    /\ last.op = "denied"
    /\ probe.auth = ByHeader
    /\ updates # <<>>
    /\ regs # <<>>

(***************************************************************************)
(* Claims about the mail dispatcher (SpecMail).                            *)
(***************************************************************************)
\* the addresses handed to the transport, batch after batch
RECURSIVE Flatten(_)
Flatten(calls) ==
    IF calls = <<>> THEN <<>> ELSE Head(calls) \o Flatten(Tail(calls))

\* the recipients of a list: its entries that are not empty once trimmed,
\* compared without regard to case
UniqueRecipients(recipients) ==
    {Lower(Strip(recipients[i])) :
        i \in {j \in DOMAIN recipients : Strip(recipients[j]) # ""}}

\* C18: the recipients handed to the transport are de-duplicated without
\* regard to case and hold no empty entry: no address is in two batches or
\* twice in one, whatever its letter case in the input, and no address that
\* is empty (or empty once trimmed) is handed to the transport.
C18_RecipientsDeduplicated ==
    last.op = "send_bulk" =>
        /\ \A i, j \in DOMAIN Flatten(last.calls) :
              i # j => Lower(Flatten(last.calls)[i])
                          # Lower(Flatten(last.calls)[j])
        /\ \A i \in DOMAIN Flatten(last.calls) :
              Strip(Flatten(last.calls)[i]) # ""

\* C19: a call whose recipient list has no recipient left once duplicates
\* and empty entries are dropped returns (0, None) and does not contact the
\* transport.
C19_NoRecipientsIsNoOp ==
    (last.op = "send_bulk" /\ UniqueRecipients(probe.recipients) = {}) =>
        /\ last.sent = 0
        /\ last.err = Absent
        /\ ~last.contacted
        /\ last.calls = <<>>

\* the answer of the transport to the k-th send ("": accepted)
OutcomeOf(k) == IF k <= Len(probe.outcomes) THEN probe.outcomes[k] ELSE ""

\* recipients in the batches from the k-th on that the transport accepted
RECURSIVE AcceptedFrom(_, _)
AcceptedFrom(calls, k) ==
    IF k > Len(calls) THEN 0
    ELSE (IF OutcomeOf(k) = "" THEN Len(calls[k]) ELSE 0)
            + AcceptedFrom(calls, k + 1)

\* the messages of the batches from the k-th on that the transport refused
RECURSIVE RefusalsFrom(_, _)
RefusalsFrom(calls, k) ==
    IF k > Len(calls) THEN <<>>
    ELSE (IF OutcomeOf(k) = "" THEN <<>> ELSE <<OutcomeOf(k)>>)
            \o RefusalsFrom(calls, k + 1)

\* C20: with the transport configured and connected the de-duplicated
\* recipients are split into consecutive batches of at most the batch size
\* (at least 1), every batch is attempted, the sent-count is the number of
\* recipients in the batches the transport accepted, the error is None when
\* no batch failed and otherwise the messages of all failed batches joined;
\* so 0 <= sent-count <= number of unique recipients.
C20_Batches ==
    (/\ last.op = "send_bulk"
     /\ probe.env.SMTP_HOST # ""
     /\ probe.env.SMTP_FROM # ""
     /\ probe.connect = "") =>
        /\ {Flatten(last.calls)[i] : i \in DOMAIN Flatten(last.calls)}
              = UniqueRecipients(probe.recipients)
        /\ Len(Flatten(last.calls))
              = Cardinality(UniqueRecipients(probe.recipients))
        /\ \A k \in DOMAIN last.calls :
              /\ Len(last.calls[k]) >= 1
              /\ Len(last.calls[k])
                    <= Max(1, BatchSize(probe.batch_size,
                                        probe.env.SMTP_BATCH_SIZE))
        /\ last.sent = AcceptedFrom(last.calls, 1)
        /\ last.err = IF RefusalsFrom(last.calls, 1) = <<>> THEN Absent
                      ELSE Join(RefusalsFrom(last.calls, 1))
        /\ 0 <= last.sent
        /\ last.sent <= Cardinality(UniqueRecipients(probe.recipients))

(***************************************************************************)
(* The announcements.                                                      *)
(***************************************************************************)
\* C24: the announcement list is edited only by the admin and kept newest
\* first: a step that adds a message puts the (trimmed, non-empty) message
\* in front of the list persisted before, so that adding to an empty store
\* persists the message alone; a step that deletes an index removes exactly
\* the element at that index of the persisted list; a refused add (empty
\* message), a refused delete (index out of range), a denied request and
\* every other request leave the persisted list as it was.
C24_Announcements ==
    [][ /\ (last'.op = "add_update" /\ last'.msg = MsgUpdateAdded)
            => /\ _require_admin(probe'.auth, admin_token)
               /\ updates' # <<>>
               /\ updates'[1] # ""
               /\ updates' = <<updates'[1]>> \o updates
        /\ (last'.op = "delete_update" /\ last'.msg = MsgUpdateDeleted)
            => /\ _require_admin(probe'.auth, admin_token)
               /\ 0 <= last'.id /\ last'.id < Len(updates)
               /\ updates' = Pop(updates, last'.id)
        /\ ~(last'.op \in {"add_update", "delete_update"}
             /\ last'.msg \in {MsgUpdateAdded, MsgUpdateDeleted})
            => updates' = updates
      ]_vars

(***************************************************************************)
(* The frame of the status transitions.                                    *)
(***************************************************************************)
\* what a registration was submitted with: the record without its review
\* fields
Submitted(r) ==
    [r EXCEPT !.review_status = "", !.selected_position = ""]

\* C22: select, reject and pause never touch submitted data: the collection
\* keeps its length and order, every registration keeps all the fields it
\* was submitted with, every registration other than the one with the given
\* id is unchanged, reject and pause leave selected_position as it was, and
\* reject or pause on an id that is not in the collection (and a denied
\* request) changes nothing; the uploads are never touched.
C22_TransitionsKeepSubmittedData ==
    [][last'.op \in {"select", "reject", "pause"}
       => /\ DOMAIN regs' = DOMAIN regs
          /\ \A i \in DOMAIN regs :
                /\ Submitted(regs'[i]) = Submitted(regs[i])
                /\ regs[i].id # last'.id => regs'[i] = regs[i]
                /\ last'.op \in {"reject", "pause"}
                      => regs'[i].selected_position = regs[i].selected_position
          /\ (last'.op \in {"reject", "pause"} /\ last'.id \notin Ids(regs))
                => regs' = regs
          /\ uploads' = uploads
          /\ issued' = issued]_vars

\* C22 witness: the older of two registrations, selected before, has just
\* been rejected and still carries the position it was selected for, next
\* to a registration nobody has reviewed
C22_Witness ==
    /\ last.op = "reject"
    /\ last.was = "selected"
    /\ Len(regs) = 2
    /\ regs[2].id = last.id
    /\ regs[2].review_status = "rejected"
    /\ regs[2].selected_position = "Backend Developer"
    /\ regs[1].review_status = "pending"

(***************************************************************************)
(* The review lifecycle.                                                   *)
(***************************************************************************)
ReviewStatuses == {"pending", "selected", "rejected", "paused"}

\* C23: reject and pause are unconditional: an admitted reject (pause) of a
\* registration of the collection leaves it rejected (paused) whatever its
\* review_status was; every review_status is one of pending, selected,
\* rejected, paused; and no step takes a registration that is not pending
\* back to pending, so a registration that has left pending is never
\* pending again while it is in the collection.
C23_NeverBackToPending ==
    [][ /\ \A j \in DOMAIN regs' : regs'[j].review_status \in ReviewStatuses
        /\ \A i \in DOMAIN regs, j \in DOMAIN regs' :
              (regs[i].id = regs'[j].id /\ regs[i].review_status # "pending")
                 => regs'[j].review_status # "pending"
        /\ (last'.op \in {"reject", "pause"} /\ last'.id \in Ids(regs))
              => /\ last'.was \in ReviewStatuses
                 /\ last'.was = RegistrationWithId(regs, last'.id).review_status
                 /\ last'.id \in Ids(regs')
                 /\ RegistrationWithId(regs', last'.id).review_status
                       = (IF last'.op = "reject" THEN "rejected" ELSE "paused")
                 /\ last'.msg
                       = (IF last'.op = "reject" THEN MsgRejected ELSE MsgPaused)
      ]_vars

\* C23 witness: a registration that had been rejected has just been paused
C23_Witness ==
    /\ last.op = "pause"
    /\ last.was = "rejected"
    /\ last.id \in Ids(regs)
    /\ RegistrationWithId(regs, last.id).review_status = "paused"

(***************************************************************************)
(* Concurrent requests (SpecRace).                                         *)
(***************************************************************************)
\* a registration of rs as it is in rs
In(rs, r) == \E i \in DOMAIN rs : rs[i] = r

\* C21: the last writer wins.  When a request saves, the document becomes
\* the list that request loaded with that request's own change and nothing
\* else: every registration other than the one the request is about is in
\* the document exactly as the request loaded it, and whatever other
\* requests saved after the load is gone.  A request that finds nothing to
\* change leaves the document alone.
C21_LastWriterWins ==
    [][\A w \in Workers :
          (inflight[w].phase = "loaded" /\ inflight'[w].phase = "done")
             => IF Effect(inflight[w], inflight[w].loaded).saves
                THEN /\ regs' = Effect(inflight[w], inflight[w].loaded).doc
                     /\ \A i \in DOMAIN regs' :
                           regs'[i].id # inflight[w].id
                              => In(inflight[w].loaded, regs'[i])
                     /\ \A i \in DOMAIN inflight[w].loaded :
                           inflight[w].loaded[i].id # inflight[w].id
                              => In(regs', inflight[w].loaded[i])
                ELSE regs' = regs]_vars

\* C21 witness (the lost update): two requests loaded the same document; the
\* submission answered "Registration successful" for its new id and the
\* reject answered "Marked as Rejected."; nobody deleted anything, every
\* request is done, and the registration that was submitted is not in the
\* collection
C21_Witness ==
    /\ \A w \in Workers : inflight[w].phase = "done" /\ inflight[w].op # "delete"
    /\ \E w \in Workers :
          /\ inflight[w].op = "register"
          /\ inflight[w].msg = MsgSuccess
          /\ inflight[w].id \notin Ids(regs)
    /\ \E w \in Workers :
          /\ inflight[w].op = "reject"
          /\ inflight[w].msg = MsgRejected
          /\ inflight[w].id \in Ids(regs)
          /\ RegistrationWithId(regs, inflight[w].id).review_status = "rejected"

====
